---- MODULE Spec2Model ----
(***************************************************************************)
(* Model of examples/custom_failure.rs of bevy_mod_sysfail: two systems    *)
(* wrapped by #[sysfail(ScreenLog<..>)], the ScreenLog failure sink and    *)
(* the per-call-site overlay registry it refreshes.                        *)
(*                                                                         *)
(* Time is counted in integer units, UnitsPerSecond of them to a second.   *)
(* The #[sysfail] wrapper, the severity filter, the Log sink and the       *)
(* registry behind refresh_text are not part of the example file; they     *)
(* are modelled from the specification (sections 4.1 - 4.3 and 5).         *)
(***************************************************************************)
EXTENDS Integers, FiniteSets, Sequences, TLC

\* ------------------------------------------------------------------ bounds
\* time units in a second
UnitsPerSecond == 2
\* the program runs until this many seconds have elapsed
MaxSeconds == 12
\* the longest frame, in units
MaxDelta == 3
\* the time, in units, up to which the sink is called on its own
MaxSinkTime == 3
\* lines and columns of the call sites the sink is called with on its own
MaxLine == 1
MaxColumn == 2

MaxTime == MaxSeconds * UnitsPerSecond

\* ------------------------------------------------------------- vocabulary
\* the systems of the Update schedule; each runs on a worker thread of its
\* own, and the same two threads make the calls when the sink is called on
\* its own
Procs == {"print_generic", "print_specialized"}

SourceFile == "examples/custom_failure.rs"

\* tracing's Level, in increasing severity
LevelRank(l) ==
    CASE l = "TRACE" -> 0
      [] l = "DEBUG" -> 1
      [] l = "INFO" -> 2
      [] l = "WARN" -> 3
      [] l = "ERROR" -> 4

Levels == {"TRACE", "DEBUG", "INFO", "WARN", "ERROR"}

SinkKinds == {"ScreenLog", "Log"}

\* enum CustomError
Zoob == [variant |-> "Zoob", transform |-> 0]
Bonzo == [variant |-> "Bonzo", transform |-> 0]
Zartrub(t) == [variant |-> "Zartrub", transform |-> t]
NoError == [variant |-> "none", transform |-> 0]

\* #[error("...")] of CustomError: the format string and its argument
Display(e) ==
    CASE e.variant = "Zoob" -> [fmt |-> "A Zoob error", arg |-> -1]
      [] e.variant = "Bonzo" -> [fmt |-> "Do the bonzo!", arg |-> -1]
      [] e.variant = "Zartrub" ->
            [fmt |-> "The Zartrub was located at {0:#?}", arg |-> e.transform]
      [] OTHER -> [fmt |-> "", arg |-> -1]

EmptyText == [fmt |-> "", arg |-> -1]

\* Result<(), E> of a wrapped body
Ok == [ok |-> TRUE, err |-> NoError]
Err(e) == [ok |-> FALSE, err |-> e]

\* Option<&'static impl Callsite>, with the metadata's optional file and line
NoCallsite ==
    [present |-> FALSE, hasFile |-> FALSE, file |-> "", hasLine |-> FALSE,
     line |-> 0, level |-> "INFO"]
SomeCallsite(f, l, lvl) ==
    [present |-> TRUE, hasFile |-> TRUE, file |-> f, hasLine |-> TRUE,
     line |-> l, level |-> lvl]

NoSite == [file |-> "", line |-> 0, column |-> 0]
NoEnvelope == [inner |-> NoError, lvl |-> "INFO"]
NoCall == [env |-> NoEnvelope, callsite |-> NoCallsite, site |-> NoSite]

\* what one invocation has been seen to do
NoObs ==
    [bodyRuns |-> 0, sinkCalls |-> 0, resolutions |-> 0, passed |-> "nothing",
     refreshCalls |-> 0, effects |-> 0, writes |-> 0, created |-> 0]

\* what a refresh that is redisplaying found when it took the slot
NoProbe ==
    [hadSlot |-> FALSE, within |-> FALSE, sameText |-> FALSE,
     aliased |-> FALSE, at |-> 0]

VARIABLES elapsed, delta, minSeverity, sinkKind, pc, result, call, registry,
          holding, obs, probe, regAtTick, owner, lastCommit

vars == <<elapsed, delta, minSeverity, sinkKind, pc, result, call, registry,
          holding, obs, probe, regAtTick, owner, lastCommit>>

\* ------------------------------------------------------- the two systems
\* let at_interval = |t: f64| current_time % t < delta;
at_interval(cur, d, t) == cur % (t * UnitsPerSecond) < d

\* Transform::from_translation(Vec3::splat(current_time as f32))
TransformAt(cur) == cur

\* mutant: the `if at_interval(6.)` guard is lost
PrintSpecializedBodyAlwaysErr(cur, d) == Err(Zartrub(TransformAt(cur)))

\* fn print_specialized: one fallible point
PrintSpecializedBody(cur, d) ==
    IF at_interval(cur, d, 6) THEN Err(Zartrub(TransformAt(cur))) ELSE Ok

\* mutant: the two fallible points in the other order
PrintGenericBodySwapped(cur, d) ==
    IF at_interval(cur, d, 5) THEN Err(Bonzo)
    ELSE IF at_interval(cur, d, 3) THEN Err(Zoob)
    ELSE Ok

\* fn print_generic: two fallible points, `?` returns at the first Err
PrintGenericBody(cur, d) ==
    IF at_interval(cur, d, 3) THEN Err(Zoob)
    ELSE IF at_interval(cur, d, 5) THEN Err(Bonzo)
    ELSE Ok

Body(p, cur, d) ==
    IF p = "print_specialized" THEN PrintSpecializedBody(cur, d)
    ELSE PrintGenericBody(cur, d)

\* mutant: the default level parameter is Warn
DefaultLvlWarn == "WARN"

\* pub struct ScreenLog<T, Lvl = Info>
DefaultLvl == "INFO"

\* the Lvl parameter of each system's #[sysfail(ScreenLog<..>)] attribute
LvlParam(p) == IF p = "print_specialized" THEN "WARN" ELSE DefaultLvl

\* const LEVEL: Level = Lvl::LEVEL
LEVEL(lvl) == lvl

\* impl From<T> for ScreenLog<U, L>: Self(t.into(), PhantomData)
From(e, lvl) == [inner |-> e, lvl |-> lvl]

\* the source position of each wrapped function
SiteOf(p) ==
    [file |-> SourceFile, line |-> IF p = "print_specialized" THEN 77 ELSE 88,
     column |-> 1]

\* ------------------------------------------------ ScreenLog::handle_error
\* mutant: one more unwrap, of a field the metadata never has
UnwrapPanicsAlways(cs) == TRUE

\* callsite.unwrap(), metadata.file().unwrap(), metadata.line().unwrap()
UnwrapPanics(cs) == ~cs.present \/ ~cs.hasFile \/ ~cs.hasLine

\* InvocationSiteKey { file, line, column: 0 }
InvocationSiteKey(cs) == [file |-> cs.file, line |-> cs.line, column |-> 0]

\* mutant: the arms of ERROR and WARN exchanged
ColorOfSwapped(level) ==
    CASE level = "ERROR" -> "ORANGE"
      [] level = "WARN" -> "RED"
      [] level = "DEBUG" -> "BLUE"
      [] level = "TRACE" -> "PURPLE"
      [] OTHER -> "GREEN"

\* match *metadata.level()
ColorOf(level) ==
    CASE level = "ERROR" -> "RED"
      [] level = "WARN" -> "ORANGE"
      [] level = "DEBUG" -> "BLUE"
      [] level = "TRACE" -> "PURPLE"
      [] OTHER -> "GREEN"

\* || format!("{}", self.0)
RenderText(env) == Display(env.inner)

\* mutant: a refresh interval of 0.
RefreshIntervalZero == 0 * UnitsPerSecond

\* the 1. passed to refresh_text
RefreshInterval == 1 * UnitsPerSecond

\* -------------------------------------------------------------- registry
Files == {SourceFile}
AllLines == {77, 88} \cup (1..MaxLine)
AllKeys == [file : Files, line : AllLines, column : {0}]

NoSlot == [present |-> FALSE, text |-> EmptyText, timer |-> 0, color |-> "none"]
\* get_or_create: the state a slot is allocated with
DefaultSlot == [present |-> TRUE, text |-> EmptyText, timer |-> 0, color |-> "none"]

GetOrCreate(reg, k) == IF reg[k].present THEN reg[k] ELSE DefaultSlot

\* refresh: redisplay only if the interval has elapsed or the content changed
Due(slot, text, now, interval) ==
    \/ now - slot.timer >= interval
    \/ text # slot.text

Key(p) == InvocationSiteKey(call[p].callsite)
Text(p) == RenderText(call[p].env)
Color(p) == ColorOf(call[p].callsite.level)

\* per-identity mutual exclusion
LockFree(p) == \A q \in Procs \ {p} : holding[q] => Key(q) # Key(p)

\* ------------------------------------------------------ dispatch wrapper
\* the global minimum-severity filter
Suppressed(lvl) == LevelRank(lvl) < LevelRank(minSeverity)

\* the marker capability: which sinks ask for the call-site identity
ConsumesCallsite(kind) == kind = "ScreenLog"

\* mutant: the origin is resolved and passed whatever the sink declares
ResolveCallsiteAlways(p, kind) ==
    SomeCallsite(SiteOf(p).file, SiteOf(p).line, LEVEL(LvlParam(p)))

\* resolve the static origin only for a sink that consumes it
ResolveCallsite(p, kind) ==
    IF ConsumesCallsite(kind)
    THEN SomeCallsite(SiteOf(p).file, SiteOf(p).line, LEVEL(LvlParam(p)))
    ELSE NoCallsite

\* where handle_error goes once its locals are computed
EnterSink(kind, cs) ==
    IF kind = "Log" THEN "Done"
    ELSE IF UnwrapPanics(cs) THEN "Panicked"
    ELSE "Acquire"

\* the host scheduler starts the next Update: time advances, every system
\* is invoked afresh
Tick ==
    /\ \A p \in Procs : pc[p] = "Done"
    /\ \E d \in 1..MaxDelta :
          /\ elapsed + d <= MaxTime
          /\ elapsed' = elapsed + d
          /\ delta' = d
    /\ pc' = [p \in Procs |-> "Pending"]
    /\ result' = [p \in Procs |-> Ok]
    /\ call' = [p \in Procs |-> NoCall]
    /\ obs' = [p \in Procs |-> NoObs]
    /\ regAtTick' = registry
    /\ UNCHANGED <<minSeverity, sinkKind, registry, holding, probe, owner, lastCommit>>

\* step 1: invoke the wrapped logic
RunBody(p) ==
    /\ pc[p] = "Pending"
    /\ result' = [result EXCEPT ![p] = Body(p, elapsed, delta)]
    /\ obs' = [obs EXCEPT ![p].bodyRuns = @ + 1]
    /\ pc' = [pc EXCEPT ![p] = "Returned"]
    /\ UNCHANGED <<elapsed, delta, minSeverity, sinkKind, call, registry,
                   holding, probe, regAtTick, owner, lastCommit>>

\* what the sink was handed as its call-site argument
PassedAs(cs) ==
    IF ~cs.present THEN "absent"
    ELSE IF cs.hasFile /\ cs.hasLine THEN "located"
    ELSE "partial"

\* steps 2 and 3: Ok returns; Err is converted and handed to the sink once
Dispatch(p) ==
    /\ pc[p] = "Returned"
    /\ IF result[p].ok \/ Suppressed(LEVEL(LvlParam(p)))
       THEN /\ pc' = [pc EXCEPT ![p] = "Done"]
            /\ UNCHANGED <<call, obs>>
       ELSE LET cs == ResolveCallsite(p, sinkKind[p])
                to == EnterSink(sinkKind[p], cs)
            IN /\ call' = [call EXCEPT ![p] =
                      IF to = "Acquire"
                      THEN [env |-> From(result[p].err, LvlParam(p)),
                            callsite |-> cs, site |-> SiteOf(p)]
                      ELSE NoCall]
               /\ obs' = [obs EXCEPT
                      ![p].sinkCalls = @ + 1,
                      ![p].resolutions = @ + (IF cs.present THEN 1 ELSE 0),
                      ![p].passed = PassedAs(cs),
                      ![p].effects = @ + (IF sinkKind[p] = "Log" THEN 1 ELSE 0)]
               /\ pc' = [pc EXCEPT ![p] = to]
    /\ UNCHANGED <<elapsed, delta, minSeverity, sinkKind, result, registry,
                   holding, probe, regAtTick, owner, lastCommit>>

\* ------------------------------------------------- refresh_text, by steps
\* take the slot's lock, allocate the slot if needed, decide whether a
\* redisplay is due
Acquire(p) ==
    /\ pc[p] = "Acquire"
    /\ LockFree(p)
    /\ LET k == Key(p)
           slot == GetOrCreate(registry, k)
           due == Due(slot, Text(p), elapsed, RefreshInterval)
       IN /\ registry' = [registry EXCEPT ![k] = slot]
          /\ owner' = [owner EXCEPT ![k] =
                 IF registry[k].present THEN @ ELSE call[p].site]
          /\ holding' = [holding EXCEPT ![p] = due]
          /\ pc' = [pc EXCEPT ![p] = IF due THEN "WText" ELSE "Done"]
          /\ call' = [call EXCEPT ![p] = IF due THEN @ ELSE NoCall]
          /\ obs' = [obs EXCEPT
                 ![p].refreshCalls = @ + 1,
                 ![p].created = @ + (IF registry[k].present THEN 0 ELSE 1)]
          /\ probe' = [probe EXCEPT ![p] =
                 IF due
                 THEN [hadSlot |-> registry[k].present,
                       within |-> elapsed - slot.timer < UnitsPerSecond,
                       sameText |-> (Text(p) = slot.text),
                       aliased |-> registry[k].present /\ owner[k] # call[p].site,
                       at |-> elapsed]
                 ELSE NoProbe]
    /\ UNCHANGED <<elapsed, delta, minSeverity, sinkKind, result,
                   regAtTick, lastCommit>>

WriteText(p) ==
    /\ pc[p] = "WText"
    /\ registry' = [registry EXCEPT ![Key(p)].text = Text(p)]
    /\ obs' = [obs EXCEPT ![p].writes = @ + 1]
    /\ pc' = [pc EXCEPT ![p] = "WTimer"]
    /\ UNCHANGED <<elapsed, delta, minSeverity, sinkKind, result, call,
                   holding, probe, regAtTick, owner, lastCommit>>

WriteTimer(p) ==
    /\ pc[p] = "WTimer"
    /\ registry' = [registry EXCEPT ![Key(p)].timer = probe[p].at]
    /\ obs' = [obs EXCEPT ![p].writes = @ + 1]
    /\ pc' = [pc EXCEPT ![p] = "WColor"]
    /\ UNCHANGED <<elapsed, delta, minSeverity, sinkKind, result, call,
                   holding, probe, regAtTick, owner, lastCommit>>

\* the last field; then the lock is released, the line is on screen and the
\* envelope is gone
WriteColor(p) ==
    /\ pc[p] = "WColor"
    /\ registry' = [registry EXCEPT ![Key(p)].color = Color(p)]
    /\ holding' = [holding EXCEPT ![p] = FALSE]
    /\ obs' = [obs EXCEPT ![p].writes = @ + 1, ![p].effects = @ + 1]
    /\ probe' = [probe EXCEPT ![p] = NoProbe]
    /\ lastCommit' = [lastCommit EXCEPT ![Key(p)] =
           [present |-> TRUE, text |-> Text(p), timer |-> probe[p].at,
            color |-> Color(p)]]
    /\ call' = [call EXCEPT ![p] = NoCall]
    /\ pc' = [pc EXCEPT ![p] = "Done"]
    /\ UNCHANGED <<elapsed, delta, minSeverity, sinkKind, result,
                   regAtTick, owner>>

Refresh(p) == Acquire(p) \/ WriteText(p) \/ WriteTimer(p) \/ WriteColor(p)

\* ------------------------------------------------------------ the program
\* main(): no severity filter is configured, both systems use ScreenLog and
\* run in the Update schedule; the first Update sees elapsed = delta = 0
InitCommon ==
    /\ elapsed = 0
    /\ delta = 0
    /\ result = [p \in Procs |-> Ok]
    /\ call = [p \in Procs |-> NoCall]
    /\ registry = [k \in AllKeys |-> NoSlot]
    /\ holding = [p \in Procs |-> FALSE]
    /\ obs = [p \in Procs |-> NoObs]
    /\ probe = [p \in Procs |-> NoProbe]
    /\ regAtTick = [k \in AllKeys |-> NoSlot]
    /\ owner = [k \in AllKeys |-> NoSite]
    /\ lastCommit = [k \in AllKeys |-> NoSlot]

Init ==
    /\ InitCommon
    /\ minSeverity = "TRACE"
    /\ sinkKind = [p \in Procs |-> "ScreenLog"]
    /\ pc = [p \in Procs |-> "Pending"]

Next ==
    \/ Tick
    \/ \E p \in Procs : RunBody(p)
    \/ \E p \in Procs : Dispatch(p)
    \/ \E p \in Procs : Refresh(p)

Spec == Init /\ [][Next]_vars

\* the wrapper under any configured filter and either kind of sink
InitConfig ==
    /\ InitCommon
    /\ minSeverity \in Levels
    /\ sinkKind \in [Procs -> SinkKinds]
    /\ pc = [p \in Procs |-> "Pending"]

SpecConfig == InitConfig /\ [][Next]_vars

\* ------------------------------------------- the sink, called on its own
\* handle_error is a public trait method: two worker threads call it with
\* any envelope and any Option<&Callsite>, at any time
Identities == [file : Files, line : 1..MaxLine, column : 1..MaxColumn]
\* the racing threads' call sites
RaceIdentities == Identities
SinkLevels == {"WARN", "ERROR"}
SinkErrors == {Zoob, Bonzo}

CallsiteInputs(site) ==
    {NoCallsite}
    \cup {[SomeCallsite(site.file, site.line, lvl) EXCEPT !.hasFile = f, !.hasLine = l] :
            lvl \in SinkLevels, f \in BOOLEAN, l \in BOOLEAN}

\* the thread the sequential calls are made on
SinkCaller == "print_generic"

\* one call at a time, with any argument the signature admits
Call(p) ==
    /\ \A q \in Procs : pc[q] \in {"Done", "Panicked"}
    /\ pc[p] = "Done"
    /\ \E e \in SinkErrors, site \in Identities :
         \E cs \in CallsiteInputs(site) :
            LET to == EnterSink("ScreenLog", cs)
            IN /\ call' = [call EXCEPT ![p] =
                      IF to = "Acquire"
                      THEN [env |-> From(e, cs.level), callsite |-> cs,
                            site |-> site]
                      ELSE NoCall]
               /\ pc' = [pc EXCEPT ![p] = to]
               /\ obs' = [q \in Procs |->
                      IF q = p
                      THEN [NoObs EXCEPT !.sinkCalls = 1, !.passed = PassedAs(cs)]
                      ELSE NoObs]
    /\ UNCHANGED <<elapsed, delta, minSeverity, sinkKind, result, registry,
                   holding, probe, regAtTick, owner, lastCommit>>

\* calls from two worker threads at once, each with a resolved call site
CallRace(p) ==
    /\ pc[p] = "Done"
    /\ \E e \in SinkErrors, site \in RaceIdentities, lvl \in SinkLevels :
          call' = [call EXCEPT ![p] =
              [env |-> From(e, lvl),
               callsite |-> SomeCallsite(site.file, site.line, lvl),
               site |-> site]]
    /\ pc' = [pc EXCEPT ![p] = "Acquire"]
    /\ obs' = [obs EXCEPT ![p] = [NoObs EXCEPT !.sinkCalls = 1, !.passed = "located"]]
    /\ UNCHANGED <<elapsed, delta, minSeverity, sinkKind, result, registry,
                   holding, probe, regAtTick, owner, lastCommit>>

Advance ==
    /\ \E d \in 1..MaxDelta :
          /\ elapsed + d <= MaxSinkTime
          /\ elapsed' = elapsed + d
    /\ UNCHANGED <<delta, minSeverity, sinkKind, pc, result, call, registry,
                   holding, obs, probe, regAtTick, owner, lastCommit>>

InitSink ==
    /\ InitCommon
    /\ minSeverity = "TRACE"
    /\ sinkKind = [p \in Procs |-> "ScreenLog"]
    /\ pc = [p \in Procs |-> "Done"]

NextSink ==
    \/ Advance
    \/ Call(SinkCaller)
    \/ \E p \in Procs : Refresh(p)

SpecSink == InitSink /\ [][NextSink]_vars

NextRace ==
    \/ Advance
    \/ \E p \in Procs : CallRace(p)
    \/ \E p \in Procs : Refresh(p)

SpecRace == InitSink /\ [][NextRace]_vars

\* ================================================================ claims
WritePcs == {"WText", "WTimer", "WColor"}

\* the registry keys of the program's two call sites
KeySpecialized == [file |-> SourceFile, line |-> 77, column |-> 0]
KeyGeneric == [file |-> SourceFile, line |-> 88, column |-> 0]
ProgramKey(p) == IF p = "print_specialized" THEN KeySpecialized ELSE KeyGeneric

\* no at_interval condition of p's body holds on this tick
NoInterval(p) ==
    IF p = "print_specialized"
    THEN ~at_interval(elapsed, delta, 6)
    ELSE ~at_interval(elapsed, delta, 3) /\ ~at_interval(elapsed, delta, 5)

Quiet(p) ==
    /\ obs[p].sinkCalls = 0
    /\ obs[p].refreshCalls = 0
    /\ obs[p].effects = 0
    /\ obs[p].writes = 0
    /\ obs[p].created = 0
    /\ registry[ProgramKey(p)] = regAtTick[ProgramKey(p)]

\* C1: an invocation whose body returns Ok (a tick on which none of its
\* at_interval conditions holds) calls no sink, issues no refresh, creates no
\* slot and writes no slot; when every system returns Ok the whole registry
\* is what it was when the tick began.
C1_OkPathSilent ==
    /\ \A p \in Procs :
          (NoInterval(p) \/ (pc[p] \in {"Returned", "Done"} /\ result[p].ok))
             => Quiet(p)
    /\ (\A p \in Procs : NoInterval(p)) => registry = regAtTick

C1_Witness ==
    /\ pc["print_specialized"] = "Done"
    /\ obs["print_specialized"].bodyRuns = 1
    /\ NoInterval("print_specialized")
    /\ result["print_specialized"].ok
    /\ registry[KeySpecialized].present
    /\ pc["print_generic"] = "Done"
    /\ ~result["print_generic"].ok

\* C2: a failing invocation runs its body once, calls handle_error exactly
\* once and ends in Done; nothing is retried and the next invocation starts
\* with no error state of the previous one.
C2_OneSinkCallThenDone ==
    \A p \in Procs :
       /\ pc[p] \in {"Pending", "Returned", "Acquire", "WText", "WTimer",
                     "WColor", "Done"}
       /\ obs[p].bodyRuns <= 1
       /\ obs[p].sinkCalls <= 1
       /\ obs[p].refreshCalls <= 1
       /\ (pc[p] = "Done" /\ ~result[p].ok)
             => obs[p].bodyRuns = 1 /\ obs[p].sinkCalls = 1
       /\ pc[p] = "Pending"
             => result[p] = Ok /\ call[p] = NoCall /\ obs[p] = NoObs

C2_Witness ==
    /\ pc["print_generic"] = "Done"
    /\ ~result["print_generic"].ok
    /\ obs["print_generic"].sinkCalls = 1
    /\ obs["print_generic"].effects = 1

\* C3 (as claimed): failures at different identities (file, line, column)
\* never read or write the same registry slot.
C3_NoAliasing ==
    \A p \in Procs : ~probe[p].aliased

\* C4: a failure that finds its slot showing the same text less than 1.0
\* seconds after that slot's last display produces no overlay effect: within
\* the interval a run of equal failures displays at most once.
C4_Throttled ==
    \A p \in Procs :
       pc[p] \in WritePcs =>
          \/ ~probe[p].hadSlot
          \/ ~probe[p].within
          \/ ~probe[p].sameText

C4_Witness ==
    /\ pc[SinkCaller] = "Done"
    /\ obs[SinkCaller].refreshCalls = 1
    /\ obs[SinkCaller].effects = 0
    /\ obs[SinkCaller].created = 0
    /\ elapsed > 0

\* C5 (as claimed): no call of handle_error fails, whatever call-site
\* argument it is given.
C5_SinkNeverFails ==
    \A p \in Procs : pc[p] # "Panicked"

C7_WarnFilter ==
    minSeverity = "WARN" =>
       \A p \in Procs :
          (pc[p] = "Done" /\ ~result[p].ok) =>
             /\ LevelRank(LEVEL(LvlParam(p))) < LevelRank("WARN")
                   => obs[p].sinkCalls = 0 /\ obs[p].effects = 0
                      /\ obs[p].writes = 0
             /\ LevelRank(LEVEL(LvlParam(p))) >= LevelRank("WARN")
                   => obs[p].sinkCalls = 1 /\ obs[p].effects = 1
             /\ p = "print_generic" => obs[p].sinkCalls = 0
             /\ p = "print_specialized" => obs[p].effects = 1

C7_Witness ==
    /\ minSeverity = "WARN"
    /\ \A p \in Procs : pc[p] = "Done" /\ ~result[p].ok
    /\ obs["print_generic"].sinkCalls = 0
    /\ obs["print_specialized"].effects = 1

\* C8 (as claimed): failures in flight at different identities never wait
\* for each other and each works on the slot allocated for its own identity;
\* writers at one identity are serialized, and a slot nobody is writing
\* holds exactly the text, timer and color of the last writer that finished.
C8_IndependentAndSerialized ==
    /\ \A p \in Procs :
          pc[p] \in WritePcs =>
             /\ registry[Key(p)].present
             /\ owner[Key(p)] = call[p].site
    /\ \A p \in Procs :
          (pc[p] = "Acquire"
             /\ \A q \in Procs \ {p} :
                   pc[q] \in WritePcs => call[q].site # call[p].site)
          => ENABLED Acquire(p)
    /\ \A p, q \in Procs :
          (p # q /\ pc[p] \in WritePcs /\ pc[q] \in WritePcs)
             => call[p].site # call[q].site
    /\ \A k \in AllKeys :
          (\A p \in Procs : pc[p] \in WritePcs => Key(p) # k)
             => registry[k] = lastCommit[k]

\* C9: print_specialized (sink level Warn), failing with Zartrub on a tick
\* where at_interval(6) holds, ends the tick with exactly one refresh and
\* one effect, its own slot showing the error's display string with the
\* transform, in the color of Warn (orange); on a tick where the condition
\* is false it causes no refresh and its slot is what it was before.
C9_ZartrubScenario ==
    LET p == "print_specialized" IN
    /\ (pc[p] = "Done" /\ at_interval(elapsed, delta, 6)) =>
          /\ obs[p].sinkCalls = 1
          /\ obs[p].refreshCalls = 1
          /\ obs[p].effects = 1
          /\ registry[KeySpecialized] =
                [present |-> TRUE,
                 text |-> [fmt |-> "The Zartrub was located at {0:#?}",
                           arg |-> elapsed],
                 timer |-> elapsed, color |-> "ORANGE"]
    /\ ~at_interval(elapsed, delta, 6) =>
          /\ obs[p].refreshCalls = 0
          /\ obs[p].effects = 0
          /\ registry[KeySpecialized] = regAtTick[KeySpecialized]
    /\ \A k \in AllKeys :
          (registry[k].present /\ registry[k].text.arg >= 0) => k = KeySpecialized

C9_Witness ==
    /\ pc["print_specialized"] = "Done"
    /\ obs["print_specialized"].bodyRuns = 1
    /\ ~at_interval(elapsed, delta, 6)
    /\ elapsed - delta = 6 * UnitsPerSecond
    /\ registry[KeySpecialized].text.arg = 6 * UnitsPerSecond
    /\ registry[KeySpecialized].color = "ORANGE"

\* C10: print_generic reports only the first error in program order: when
\* at_interval(3) holds (also together with at_interval(5)) the sink is
\* called once and the slot shows Zoob; Bonzo is shown only when
\* at_interval(5) holds and at_interval(3) does not; both go to the one slot
\* of print_generic.
C10_FirstErrorOnly ==
    LET p == "print_generic"
        a3 == at_interval(elapsed, delta, 3)
        a5 == at_interval(elapsed, delta, 5)
    IN
    /\ (pc[p] = "Done" /\ a3) =>
          /\ obs[p].sinkCalls = 1
          /\ obs[p].effects = 1
          /\ registry[KeyGeneric].text = [fmt |-> "A Zoob error", arg |-> -1]
    /\ (pc[p] = "Done" /\ a5 /\ ~a3) =>
          /\ obs[p].sinkCalls = 1
          /\ obs[p].effects = 1
          /\ registry[KeyGeneric].text = [fmt |-> "Do the bonzo!", arg |-> -1]
    /\ (obs[p].writes > 0 /\ registry[KeyGeneric].text.fmt = "Do the bonzo!")
          => a5 /\ ~a3
    /\ \A k \in AllKeys :
          (registry[k].present /\ registry[k].text.fmt \in {"A Zoob error", "Do the bonzo!"})
             => k = KeyGeneric

C10_Witness ==
    /\ pc["print_generic"] = "Done"
    /\ at_interval(elapsed, delta, 3)
    /\ at_interval(elapsed, delta, 5)
    /\ obs["print_generic"].sinkCalls = 1
    /\ obs["print_generic"].effects = 1
    /\ registry[KeyGeneric].text.fmt = "A Zoob error"

====
